---------------------------- MODULE Spec2Model ----------------------------
(***************************************************************************)
(* A model of the seamcarving crate: the position arithmetic (pos.rs), the *)
(* backing matrix with seam compaction (matrix.rs), the energy function    *)
(* (energy.rs), the carved and rotated views (carved.rs, rotated.rs), the  *)
(* incremental seam finder (seamfinder.rs) and the crate root's resize     *)
(* (lib.rs).  Positions, widths and indexes are 0-based as in the code;    *)
(* a Vec is a TLA+ sequence, so element i of a Vec is element i+1 here.    *)
(***************************************************************************)
EXTENDS Integers, Sequences, FiniteSets, TLC

\* ------------------------------------------------------------- bounds
MaxW == 3
MaxH == 3
MaxPix == 1
MaxCells == 6
\* the longest walk of a RectIterator the model follows
MaxIter == 40

\* ---------------------------------------------------- integer helpers
\* std::u32::MAX.  The model checker's integers end at 2^31 - 1, which stands
\* for it: every energy and coordinate in the model's bounds is far below both.
U32_MAX == 2147483647
Min2(a, b) == IF a <= b THEN a ELSE b
MinOf(S) == CHOOSE m \in S : \A n \in S : m <= n
Max2(a, b) == IF a >= b THEN a ELSE b
\* u32::saturating_sub
saturating_sub(a, b) == IF a >= b THEN a - b ELSE 0
\* a - b on u32 when the build does not check overflow
wrapping_sub(a, b) == IF a >= b THEN a - b ELSE U32_MAX - (b - a) + 1

\* Option<T>: None is the empty sequence, Some(v) the one-element sequence
None == <<>>
Some(v) == <<v>>
IsSome(o) == o # <<>>
Unwrap(o) == o[1]

\* ------------------------------------------------------------- pos.rs
Pos(x, y) == <<x, y>>
PX(p) == p[1]
PY(p) == p[2]

\* the positions a PosLine yields, in order
PosLine(x, y, x_end) ==
    IF x > x_end THEN <<>>
    ELSE [i \in 1..(x_end - x + 1) |-> Pos(x + i - 1, y)]

successors(p, size) ==
    LET x0 == PX(p)
        y0 == PY(p)
        x_end == Min2(x0 + 1, wrapping_sub(PX(size), 1))
        y == y0 + 1
    IN  IF y < PY(size)
        THEN PosLine(saturating_sub(x0, 1), y, x_end)
        ELSE PosLine(x_end + 1, y0, x_end)

\* predecessors that leaves out the position up and to the right
predecessors_without_right(p, size) ==
    LET x0 == PX(p)
        y0 == PY(p)
        x_end == Min2(x0, wrapping_sub(PX(size), 1))
    IN  IF y0 >= 1
        THEN PosLine(saturating_sub(x0, 1), y0 - 1, x_end)
        ELSE PosLine(x_end + 1, 0, x_end)

predecessors(p, size) ==
    LET x0 == PX(p)
        y0 == PY(p)
        x_end == Min2(x0 + 1, wrapping_sub(PX(size), 1))
    IN  IF y0 >= 1
        THEN PosLine(saturating_sub(x0, 1), y0 - 1, x_end)
        ELSE PosLine(x_end + 1, 0, x_end)

\* top, bottom, left and right, in this order
surrounding(p, size) ==
    LET x == PX(p)
        y == PY(p)
    IN  << Pos(x, saturating_sub(y, 1)),
           Pos(x, Min2(y + 1, wrapping_sub(PY(size), 1))),
           Pos(saturating_sub(x, 1), y),
           Pos(Min2(x + 1, wrapping_sub(PX(size), 1)), y) >>

\* RectIterator::next, followed for at most fuel steps: the positions yielded
RECURSIVE RectIterate(_, _, _, _)
RectIterate(current, start, end, fuel) ==
    IF PY(current) = PY(end) \/ fuel = 0 THEN <<>>
    ELSE LET x1 == PX(current) + 1
             nxt == IF x1 = PX(end)
                    THEN Pos(PX(start), PY(current) + 1)
                    ELSE Pos(x1, PY(current))
         IN  <<current>> \o RectIterate(nxt, start, end, fuel - 1)

iter_in_rect(start, end) == RectIterate(start, start, end, MaxIter)

\* impl Sub<Pos> for Pos
PosSub(a, b) == Pos(saturating_sub(PX(a), PX(b)), saturating_sub(PY(a), PY(b)))

\* ---------------------------------------------------------- matrix.rs
\* Matrix<T> { original_width, current_width, contents }
MatrixFromFn(size, f(_, _)) ==
    LET width == PX(size)
        height == PY(size)
    IN  [ original_width |-> width,
          current_width  |-> width,
          contents |-> [i \in 1..(width * height) |->
                            f((i - 1) % width, (i - 1) \div width)] ]

MatrixOffset(m, p) == PX(p) + PY(p) * m.original_width
\* Index / IndexMut panic outside the Vec
MatrixInRange(m, p) ==
    /\ PX(p) <= Len(m.contents)
    /\ PY(p) <= Len(m.contents)
    /\ MatrixOffset(m, p) < Len(m.contents)
MatrixIndex(m, p) == m.contents[MatrixOffset(m, p) + 1]
MatrixSet(m, p, v) == [m EXCEPT !.contents[MatrixOffset(m, p) + 1] = v]

\* the rows chunks_exact_mut(original_width) yields
MatrixRows(m) == Len(m.contents) \div m.original_width
MatrixRow(m, y) ==
    SubSeq(m.contents, y * m.original_width + 1, (y + 1) * m.original_width)

\* a rotation of the row's whole tail, from x to the end of the row
RotateRowToEnd(row, x, current_width) ==
    IF x >= Len(row) THEN row
    ELSE SubSeq(row, 1, x) \o SubSeq(row, x + 2, Len(row)) \o <<row[x + 1]>>

\* aliases[x..current_width].rotate_left(1) when the slice is not empty
RotateRow(row, x, current_width) ==
    IF x >= current_width THEN row
    ELSE SubSeq(row, 1, x)
         \o SubSeq(row, x + 2, current_width)
         \o <<row[x + 1]>>
         \o SubSeq(row, current_width + 1, Len(row))

\* Matrix::remove_seam panics on current_width - 1 below zero (a build that
\* checks overflow), on chunks of size zero, and on a slice whose start is
\* after its end or whose end is after the row's
MatrixRemoveSeamPanics(m, seam, oc) ==
    \/ m.current_width = 0 /\ oc
    \/ m.original_width = 0
    \/ m.current_width > m.original_width
    \/ \E y \in 0..(Min2(MatrixRows(m), Len(seam)) - 1) :
           PX(seam[Len(seam) - y]) > m.current_width

\* row y (from the top) is zipped with the seam read from its end
MatrixRemoveSeam(m, seam) ==
    LET ow == m.original_width
        rows == Min2(MatrixRows(m), Len(seam))
    IN  [ m EXCEPT
            !.current_width = wrapping_sub(m.current_width, 1),
            !.contents = [i \in 1..Len(m.contents) |->
                LET y == (i - 1) \div ow
                    x == (i - 1) % ow
                IN  IF y < rows
                    THEN RotateRow(MatrixRow(m, y), PX(seam[Len(seam) - y]),
                                   m.current_width)[x + 1]
                    ELSE m.contents[i] ] ]

\* ------------------------------------------- lib.rs: Direction and Pos
\* The crate root has a Direction and a Pos of its own, which its resize
\* uses.  Direction::X and Direction::Y are "X" and "Y".
Directions == <<"X", "Y">>

\* Direction::other
other(d) == IF d = "X" THEN "Y" ELSE "X"

\* Pos::before
before(p, max) == PX(p) < PX(max) /\ PY(p) < PY(max)

\* Pos::component
component(p, d) == IF d = "X" THEN PX(p) ELSE PY(p)

\* impl From<Direction> for Pos
DirectionPos(d) == IF d = "X" THEN Pos(1, 0) ELSE Pos(0, 1)

\* impl Add<Pos>, Sub<Pos>, Mul<u32> and Mul<Pos> for Pos
LibPosAdd(a, b) == Pos(PX(a) + PX(b), PY(a) + PY(b))
LibPosSub(a, b) == Pos(saturating_sub(PX(a), PX(b)), saturating_sub(PY(a), PY(b)))
PosMulScalar(a, n) == Pos(PX(a) * n, PY(a) * n)
PosMulPos(a, b) == Pos(PX(a) * PX(b), PY(a) * PY(b))

\* Pos::successors(dir): one step along dir, and the orthogonal coordinate
\* one less (when it is not zero), the same, and one more
LibSuccessors(p, dir) ==
    LET orth == other(dir)
        orth_projection == component(p, orth)
        xs == (IF orth_projection >= 1 THEN <<orth_projection - 1>> ELSE <<>>)
              \o <<orth_projection>>
              \o (IF orth_projection < U32_MAX THEN <<orth_projection + 1>> ELSE <<>>)
    IN  [i \in 1..Len(xs) |->
            LibPosAdd(PosMulScalar(DirectionPos(orth), xs[i]),
                      PosMulPos(LibPosAdd(p, DirectionPos(dir)), DirectionPos(dir)))]

\* ------------------------------------------------- image views (lib.rs)
\* A pixel is the sequence of its channel values.  An image buffer is
\* [kind |-> "buffer", width, height, data], data row-major; the views are
\* [kind |-> "carved", img, removed, pos_aliases] and [kind |-> "rotated", img].
ImageBuffer(w, h, data) ==
    [kind |-> "buffer", width |-> w, height |-> h, data |-> data]

\* ---------------------------------------------------------- carved.rs
RECURSIVE Dimensions(_)
Dimensions(v) ==
    CASE v.kind = "buffer"  -> <<v.width, v.height>>
      [] v.kind = "carved"  ->
            LET d == Dimensions(v.img) IN <<d[1] - v.removed, d[2]>>
      [] v.kind = "rotated" ->
            LET d == Dimensions(v.img) IN <<d[2], d[1]>>
      [] v.kind = "libcarved" ->
            LET d == Dimensions(v.img)
            IN  LibPosSub(Pos(d[1], d[2]),
                          PosMulScalar(DirectionPos(other(v.dir)), v.removed))

max_pos(img) == Pos(Dimensions(img)[1], Dimensions(img)[2])

\* ----------------------------------------------------- lib.rs: Carved
\* Carved { img, dir, removed, pos_aliases }: dir is the direction the seams
\* run along, and row i of pos_aliases belongs to coordinate i along dir
LibMaxOrth(c) == component(max_pos(c.img), other(c.dir))

LibCarvedNew(img, dir) ==
    LET max_dir == component(max_pos(img), dir)
        max_orth == component(max_pos(img), other(dir))
    IN  [ kind |-> "libcarved",
          img |-> img,
          dir |-> dir,
          removed |-> 0,
          pos_aliases |-> <<>> \o [i \in 1..(max_dir * max_orth) |->
                                      (i - 1) % max_orth] ]

\* aliases[n..].rotate_left(1) when the slice is not empty
LibRotateRow(row, n) ==
    IF n >= Len(row) THEN row
    ELSE SubSeq(row, 1, n) \o SubSeq(row, n + 2, Len(row)) \o <<row[n + 1]>>

\* the rows chunks_exact_mut(max_orth) yields that zip pairs with the seam
LibZippedRows(c, seam) ==
    Min2(Len(c.pos_aliases) \div LibMaxOrth(c), Len(seam))

\* remove_seam panics on chunks of size zero and on a slice that starts
\* after the row's end
LibCarvedRemoveSeamPanics(c, seam) ==
    \/ LibMaxOrth(c) = 0
    \/ \E r \in 1..LibZippedRows(c, seam) :
           component(seam[r], other(c.dir)) > LibMaxOrth(c)

LibCarvedRemoveSeam(c, seam) ==
    LET max_orth == LibMaxOrth(c)
        rows == LibZippedRows(c, seam)
        row(r) == SubSeq(c.pos_aliases, (r - 1) * max_orth + 1, r * max_orth)
    IN  [ c EXCEPT
            !.pos_aliases =
                <<>> \o [i \in 1..Len(c.pos_aliases) |->
                    LET r == ((i - 1) \div max_orth) + 1
                    IN  IF r <= rows
                        THEN LibRotateRow(row(r), component(seam[r], other(c.dir)))
                                 [((i - 1) % max_orth) + 1]
                        ELSE c.pos_aliases[i]],
            !.removed = c.removed + 1 ]

\* the index transform_pos reads in pos_aliases
LibAliasIndex(c, pos) ==
    component(pos, c.dir) * LibMaxOrth(c) + component(pos, other(c.dir))

\* Given a position in the carved image, the position in the original
LibTransformPos(c, pos) ==
    LibPosAdd(PosMulScalar(DirectionPos(c.dir), component(pos, c.dir)),
              PosMulScalar(DirectionPos(other(c.dir)),
                           c.pos_aliases[LibAliasIndex(c, pos) + 1]))

CarvedNew(img) ==
    [ kind |-> "carved",
      img |-> img,
      removed |-> 0,
      pos_aliases |-> MatrixFromFn(max_pos(img), LAMBDA x, y : x) ]

\* remove_seam that does not count the seam in removed
CarvedRemoveSeamUncounted(c, seam) ==
    [ c EXCEPT !.pos_aliases = MatrixRemoveSeam(c.pos_aliases, seam) ]

CarvedRemoveSeam(c, seam) ==
    [ c EXCEPT !.pos_aliases = MatrixRemoveSeam(c.pos_aliases, seam),
               !.removed = c.removed + 1 ]

\* Given a position in the carved image, the position in the original
transform_pos(c, p) == Pos(MatrixIndex(c.pos_aliases, p), PY(p))

\* get_pixel panics when a matrix index or the buffer's bounds are exceeded
RECURSIVE GetPixelPanics(_, _, _)
GetPixelPanics(v, x, y) ==
    CASE v.kind = "buffer"  -> x >= v.width \/ y >= v.height
      [] v.kind = "carved"  ->
            \/ ~MatrixInRange(v.pos_aliases, Pos(x, y))
            \/ GetPixelPanics(v.img, PX(transform_pos(v, Pos(x, y))), y)
      [] v.kind = "rotated" -> GetPixelPanics(v.img, y, x)
      [] v.kind = "libcarved" ->
            \/ LibAliasIndex(v, Pos(x, y)) >= Len(v.pos_aliases)
            \/ GetPixelPanics(v.img, PX(LibTransformPos(v, Pos(x, y))),
                                     PY(LibTransformPos(v, Pos(x, y))))

RECURSIVE GetPixel(_, _, _)
GetPixel(v, x, y) ==
    CASE v.kind = "buffer"  -> v.data[x + y * v.width + 1]
      [] v.kind = "carved"  ->
            LET q == transform_pos(v, Pos(x, y)) IN GetPixel(v.img, PX(q), PY(q))
      [] v.kind = "rotated" -> GetPixel(v.img, y, x)
      [] v.kind = "libcarved" ->
            LET q == LibTransformPos(v, Pos(x, y)) IN GetPixel(v.img, PX(q), PY(q))

\* --------------------------------------------------------- rotated.rs
\* a wrapper that leaves the coordinates as they are
RotatedUnwrapped(img) == img

Rotated(img) == [kind |-> "rotated", img |-> img]

\* the dense buffer sampled from a view, pixel by pixel
ViewToBuffer(v) ==
    LET w == Dimensions(v)[1]
        h == Dimensions(v)[2]
    IN  ImageBuffer(w, h, <<>> \o [i \in 1..(w * h) |->
                                      GetPixel(v, (i - 1) % w, (i - 1) \div w)])

\* ---------------------------------------------------------- energy.rs
\* square_diff that does not square the difference
square_diff_unsquared(a, b) == IF a >= b THEN a - b ELSE b - a

square_diff(a, b) == (a - b) * (a - b)

RECURSIVE SquareDiffSum(_, _, _)
SquareDiffSum(ch1, ch2, i) ==
    IF i > Len(ch1) THEN 0
    ELSE square_diff(ch1[i], ch2[i]) + SquareDiffSum(ch1, ch2, i + 1)

square_diff_px(p1, p2) == SquareDiffSum(p1, p2, 1)

\* the four positions energy_fn reads
EnergyReads(img, pos) == surrounding(pos, max_pos(img))

energy_fn(img, pos) ==
    LET s == EnergyReads(img, pos)
        top_px    == GetPixel(img, PX(s[1]), PY(s[1]))
        bottom_px == GetPixel(img, PX(s[2]), PY(s[2]))
        left_px   == GetPixel(img, PX(s[3]), PY(s[3]))
        right_px  == GetPixel(img, PX(s[4]), PY(s[4]))
    IN  square_diff_px(top_px, bottom_px) + square_diff_px(left_px, right_px)

EnergyFnPanics(img, pos) ==
    \E i \in 1..4 :
        GetPixelPanics(img, PX(EnergyReads(img, pos)[i]), PY(EnergyReads(img, pos)[i]))

\* -------------------------------------------------- lib.rs: energy_fn
\* a.to_i16().unwrap_or(i16::max_value())
I16_MAX == 32767
to_i16(a) == IF a <= I16_MAX THEN a ELSE I16_MAX

\* the sum over the channels of ((a - b).abs() as u32).pow(2)
RECURSIVE AbsDiffSquaredSum(_, _, _)
AbsDiffSquaredSum(p1, p2, i) ==
    IF i > Min2(Len(p1), Len(p2)) THEN 0
    ELSE LET d == to_i16(p1[i]) - to_i16(p2[i])
             a == IF d < 0 THEN -d ELSE d
         IN  a * a + AbsDiffSquaredSum(p1, p2, i + 1)

\* the two positions energy_fn reads along dir: the next one, or pos itself
\* when the next one is not before the end, and the previous one, saturating
LibEnergyNext(img, pos, dir) ==
    IF before(LibPosAdd(pos, DirectionPos(dir)), max_pos(img))
    THEN LibPosAdd(pos, DirectionPos(dir))
    ELSE pos
LibEnergyPrev(pos, dir) == LibPosSub(pos, DirectionPos(dir))

LibEnergyAlong(img, pos, dir) ==
    AbsDiffSquaredSum(
        GetPixel(img, PX(LibEnergyNext(img, pos, dir)), PY(LibEnergyNext(img, pos, dir))),
        GetPixel(img, PX(LibEnergyPrev(pos, dir)), PY(LibEnergyPrev(pos, dir))), 1)

\* energy_fn that looks along Direction::X only
LibEnergyFnAlongX(img, pos) == LibEnergyAlong(img, pos, Directions[1])

\* the crate root's energy_fn: the sum over Direction::all()
LibEnergyFn(img, pos) ==
    LibEnergyAlong(img, pos, Directions[1]) + LibEnergyAlong(img, pos, Directions[2])

\* -------------------------------------------------- lib.rs: carve_one
\* The graph carve_one hands to dijkstra.  From the start node None the
\* successors are the positions dir.other() * x, x below the orthogonal size,
\* at cost 0; from a position they are its successors along dir that are
\* before last_pos, at the cost of their energy; a position is a goal when
\* its coordinate along dir is end_coord.
StartNodes(carved, dir) ==
    {PosMulScalar(DirectionPos(other(dir)), x) :
        x \in 0..(component(max_pos(carved), other(dir)) - 1)}

StepsFrom(carved, dir, pos) ==
    {LibSuccessors(pos, dir)[i] : i \in
        {j \in 1..Len(LibSuccessors(pos, dir)) :
            before(LibSuccessors(pos, dir)[j], max_pos(carved))}}

\* energy_fn(carved, &pos) at every position of the view, row by row; the
\* view does not change while dijkstra runs
EnergyGrid(carved) ==
    <<>> \o [i \in 1..(PX(max_pos(carved)) * PY(max_pos(carved))) |->
                LibEnergyFn(carved, Pos((i - 1) % PX(max_pos(carved)),
                                        (i - 1) \div PX(max_pos(carved))))]

\* A path from None with the cost dijkstra sums along it: 0 for the first
\* position, entered from None, and its energy for every later position.
Reached(path, cost) == [path |-> path, cost |-> cost]
Last(r) == r.path[Len(r.path)]
Extended(r, n, energies, width) ==
    Reached(Append(r.path, n), r.cost + energies[PX(n) + PY(n) * width + 1])

\* the paths that no other path to the same position undercuts
Cheapest(reached) ==
    {r \in reached : \A q \in reached : Last(q) = Last(r) => r.cost <= q.cost}

\* the paths of the least cost
LeastCost(reached) ==
    {r.path : r \in {q \in reached : \A o \in reached : q.cost <= o.cost}}

\* The paths of the least cost from None to a goal.  Each step moves one
\* along dir, so the paths of one length reach the goal together; a path of
\* the least cost to the goal is one of the least cost to each position on it.
RECURSIVE ShortestPaths(_, _, _, _, _, _)
ShortestPaths(reached, energies, width, carved, dir, end_coord) ==
    IF reached = {} THEN {}
    ELSE IF \A r \in reached : component(Last(r), dir) = end_coord
    THEN LeastCost(reached)
    ELSE LET longer == UNION {{Extended(r, n, energies, width)
                                 : n \in StepsFrom(carved, dir, Last(r))}
                                : r \in reached}
             cheapest == Cheapest(longer)
         IN  ShortestPaths(cheapest, energies, width, carved, dir, end_coord)

\* dijkstra(&None, successors, success) returns a path of the least cost;
\* which one among several of the same cost is the pathfinding crate's
\* choice, so all of them are outcomes.  No path: None.
dijkstra(carved, dir, end_coord) ==
    LET energies == EnergyGrid(carved)
        width == PX(max_pos(carved))
        starts == {Reached(<<n>>, 0) : n \in StartNodes(carved, dir)}
    IN  ShortestPaths(starts, energies, width, carved, dir, end_coord)

\* last_pos.component(dir) - 1 on u32
EndCoord(carved, dir) == wrapping_sub(component(max_pos(carved), dir), 1)

\* the seams carve_one can remove; none when dijkstra finds no path and
\* expect("No seam found") panics
Seams(carved, dir) == dijkstra(carved, dir, EndCoord(carved, dir))

\* carve_one panics on the subtraction when the build checks overflow, when
\* no seam is found, and in remove_seam
CarveOnePanics(carved, dir, oc) ==
    \/ oc /\ component(max_pos(carved), dir) = 0
    \/ Seams(carved, dir) = {}

\* ------------------------------------------------------ seamfinder.rs
\* The closure handed to extract_seam and fill: |p| energy_fn(view, p) over
\* the current view, or a fixed table of energies (row-major, width w), as
\* the unit tests' |Pos(x, _y)| x.
EnergyOverView(view) == [kind |-> "view", view |-> view]
EnergyTable(w, table) == [kind |-> "table", w |-> w, table |-> table]

EnergyCallPanics(f, pos) ==
    CASE f.kind = "view"  -> EnergyFnPanics(f.view, pos)
      [] f.kind = "table" -> FALSE

EnergyCall(f, pos) ==
    CASE f.kind = "view"  -> energy_fn(f.view, pos)
      [] f.kind = "table" -> f.table[PX(pos) + PY(pos) * f.w + 1]

\* clean bounds that start at column 0
DirtyCleanFromZero(size) == <<0, 0>>

\* DirtyBounds(lo, hi)
DirtyClean(size) == <<PX(size), 0>>
DirtyDirty(size) == <<0, PX(size)>>
DirtyUpdate(db, pos) ==
    LET x == PX(pos)
        lo == IF x < db[1] THEN x ELSE db[1]
        hi == IF x >= db[2] THEN x + 1 ELSE db[2]
    IN  <<lo, hi>>

\* SeamElem { predecessor_dx, energy }
SeamElemNew(energy) == [predecessor_dx |-> 0, energy |-> energy]

set_dx(e, current, pred) ==
    [e EXCEPT !.predecessor_dx =
        IF PX(pred) > PX(current)
        THEN PX(pred) - PX(current)
        ELSE -(PX(current) - PX(pred))]

\* predecessor subtracts on u32: below zero it panics when the build checks
\* overflow and wraps around when it does not
PredecessorOverflows(e, pos) ==
    \/ e.predecessor_dx <= 0 /\ PX(pos) < -e.predecessor_dx
    \/ PY(pos) = 0

predecessor(e, pos) ==
    Pos(IF e.predecessor_dx > 0
        THEN PX(pos) + e.predecessor_dx
        ELSE wrapping_sub(PX(pos), -e.predecessor_dx),
        wrapping_sub(PY(pos), 1))

\* SeamFinder { size, contents, to_clear, dirty_bounds }
SeamFinderNew(size) ==
    [ size |-> size,
      contents |-> MatrixFromFn(size, LAMBDA x, y : None),
      to_clear |-> <<>>,
      dirty_bounds |-> DirtyDirty(size) ]

\* A SeamFinder operation in progress: the finder, and whether it panicked
Running(sf) == [sf |-> sf, panic |-> FALSE]
Panicked(st) == [st EXCEPT !.panic = TRUE]

\* fill's inner loop over the predecessors of pos, from the i-th on
RECURSIVE BestElem(_, _, _, _, _, _)
BestElem(contents, pos, preds, i, delta_e, best) ==
    IF i > Len(preds) THEN best
    ELSE LET o == MatrixIndex(contents, preds[i])
             energy == Unwrap(o).energy + delta_e
         IN  IF IsSome(o) /\ energy < best.energy
             THEN BestElem(contents, pos, preds, i + 1, delta_e,
                           set_dx([best EXCEPT !.energy = energy], pos, preds[i]))
             ELSE BestElem(contents, pos, preds, i + 1, delta_e, best)

\* the body of fill's loop for one position
FillCell(st, f, pos) ==
    LET sf == st.sf
        preds == predecessors(pos, sf.size)
    IN  IF ~MatrixInRange(sf.contents, pos) THEN Panicked(st)
        ELSE IF IsSome(MatrixIndex(sf.contents, pos)) THEN st
        ELSE IF EnergyCallPanics(f, pos) THEN Panicked(st)
        ELSE IF \E i \in 1..Len(preds) : ~MatrixInRange(sf.contents, preds[i])
             THEN Panicked(st)
        ELSE LET delta_e == EnergyCall(f, pos)
                 found == BestElem(sf.contents, pos, preds, 1, delta_e,
                                   SeamElemNew(U32_MAX))
                 best_elem == IF found.energy = U32_MAX
                              THEN [found EXCEPT !.energy = delta_e]
                              ELSE found
             IN  [st EXCEPT !.sf.contents = MatrixSet(sf.contents, pos, Some(best_elem))]

RECURSIVE FillLoop(_, _, _, _)
FillLoop(st, f, positions, i) ==
    IF st.panic \/ i > Len(positions) THEN st
    ELSE FillLoop(FillCell(st, f, positions[i]), f, positions, i + 1)

fill(sf, f) ==
    LET start == Pos(sf.dirty_bounds[1], 0)
        end == Pos(sf.dirty_bounds[2], PY(sf.size))
        st == FillLoop(Running(sf), f, iter_in_rect(start, end), 1)
    IN  IF st.panic THEN st
        ELSE [st EXCEPT !.sf.dirty_bounds = DirtyClean(sf.size)]

\* clear's test of one successor s of pos: whether s is pushed
ClearPushes(sf, pos, s) ==
    LET o == MatrixIndex(sf.contents, s)
    IN  IsSome(o) /\ predecessor(Unwrap(o), s) = pos

ClearTestPanics(sf, s, oc) ==
    \/ ~MatrixInRange(sf.contents, s)
    \/ LET o == MatrixIndex(sf.contents, s)
       IN  IsSome(o) /\ oc /\ PredecessorOverflows(Unwrap(o), s)

\* the successors of pos that clear pushes, in the order it pushes them
RECURSIVE ClearPushed(_, _, _, _)
ClearPushed(sf, pos, succ, i) ==
    IF i > Len(succ) THEN <<>>
    ELSE (IF ClearPushes(sf, pos, succ[i]) THEN <<succ[i]>> ELSE <<>>)
         \o ClearPushed(sf, pos, succ, i + 1)

\* the while loop of clear: pop a position, clear it, push its dependents
RECURSIVE ClearLoop(_, _)
ClearLoop(st, oc) ==
    IF st.panic \/ st.sf.to_clear = <<>> THEN st
    ELSE LET sf0 == st.sf
             n == Len(sf0.to_clear)
             pos == sf0.to_clear[n]
             sf1 == [sf0 EXCEPT !.to_clear = SubSeq(sf0.to_clear, 1, n - 1)]
         IN  IF ~MatrixInRange(sf1.contents, pos) THEN Panicked(st)
             ELSE LET sf2 == [sf1 EXCEPT
                                !.contents = MatrixSet(sf1.contents, pos, None),
                                !.dirty_bounds = DirtyUpdate(sf1.dirty_bounds, pos)]
                      succ == successors(pos, sf2.size)
                  IN  IF \E i \in 1..Len(succ) : ClearTestPanics(sf2, succ[i], oc)
                      THEN Panicked([st EXCEPT !.sf = sf2])
                      ELSE ClearLoop([st EXCEPT !.sf =
                              [sf2 EXCEPT !.to_clear =
                                  sf2.to_clear \o ClearPushed(sf2, pos, succ, 1)]], oc)

\* Recursively invalidates all cached information about a position
clear(st, p, oc) ==
    ClearLoop([st EXCEPT !.sf.to_clear = Append(st.sf.to_clear, p)], oc)

\* min_by_key that keeps the last minimum
RECURSIVE MinByKeyLast(_, _, _, _)
MinByKeyLast(contents, y, x, w) ==
    IF x >= w THEN None
    ELSE LET rest == MinByKeyLast(contents, y, x + 1, w)
             here == Unwrap(MatrixIndex(contents, Pos(x, y))).energy
         IN  IF rest = None THEN Some(Pos(x, y))
             ELSE IF here < Unwrap(MatrixIndex(contents, Unwrap(rest))).energy
                  THEN Some(Pos(x, y))
                  ELSE rest

\* the bottom pixel with the lowest energy: min_by_key keeps the first minimum
RECURSIVE MinByKey(_, _, _, _)
MinByKey(contents, y, x, w) ==
    IF x >= w THEN None
    ELSE LET rest == MinByKey(contents, y, x + 1, w)
             here == Unwrap(MatrixIndex(contents, Pos(x, y))).energy
         IN  IF rest = None THEN Some(Pos(x, y))
             ELSE IF here <= Unwrap(MatrixIndex(contents, Unwrap(rest))).energy
                  THEN Some(Pos(x, y))
                  ELSE rest

BottomPanics(sf) ==
    /\ PY(sf.size) >= 1
    /\ \E x \in 0..(PX(sf.size) - 1) :
          \/ ~MatrixInRange(sf.contents, Pos(x, PY(sf.size) - 1))
          \/ ~IsSome(MatrixIndex(sf.contents, Pos(x, PY(sf.size) - 1)))

BottomInit(sf) ==
    IF PY(sf.size) = 0 THEN None
    ELSE MinByKey(sf.contents, PY(sf.size) - 1, 0, PX(sf.size))

\* the walk from the bottom pixel along the stored predecessors; each position
\* is pushed on the seam, its successor computed, and then cleared
RECURSIVE Walk(_, _, _, _)
Walk(st, seam, o, oc) ==
    IF st.panic \/ o = None THEN [st |-> st, seam |-> seam]
    ELSE LET pos == Unwrap(o)
             seam1 == Append(seam, pos)
         IN  IF PY(pos) = 0
             THEN Walk(clear(st, pos, oc), seam1, None, oc)
             ELSE IF \/ ~MatrixInRange(st.sf.contents, pos)
                     \/ ~IsSome(MatrixIndex(st.sf.contents, pos))
                     \/ oc /\ PredecessorOverflows(
                                 Unwrap(MatrixIndex(st.sf.contents, pos)), pos)
                  THEN [st |-> Panicked(st), seam |-> seam1]
                  ELSE Walk(clear(st, pos, oc), seam1,
                            Some(predecessor(
                                 Unwrap(MatrixIndex(st.sf.contents, pos)), pos)), oc)

\* What extract_seam leaves: the finder afterwards, the seam returned, whether
\* it panicked, and the finder as it stood between fill and the walk
Extracted(sf, seam_, panic, filled_) ==
    [sf |-> sf, seam |-> seam_, panic |-> panic, filled |-> filled_]

\* the end of extract_seam: size.0 -= 1 and contents.remove_seam(&seam)
ExtractFinish(filled_, w, oc) ==
    IF \/ w.st.panic
       \/ oc /\ PX(w.st.sf.size) = 0
       \/ MatrixRemoveSeamPanics(w.st.sf.contents, w.seam, oc)
    THEN Extracted(w.st.sf, w.seam, TRUE, filled_)
    ELSE Extracted([w.st.sf EXCEPT
                      !.size = Pos(wrapping_sub(PX(w.st.sf.size), 1), PY(w.st.sf.size)),
                      !.contents = MatrixRemoveSeam(w.st.sf.contents, w.seam)],
                   w.seam, FALSE, filled_)

\* extract_seam after its call of fill
ExtractWalk(st, oc) ==
    IF st.panic \/ BottomPanics(st.sf)
    THEN Extracted(st.sf, <<>>, TRUE, st.sf)
    ELSE ExtractFinish(st.sf, Walk(st, <<>>, BottomInit(st.sf), oc), oc)

extract_seam(sf, f, oc) == ExtractWalk(fill(sf, f), oc)

\* ------------------------------------------------------------- inputs
\* one-channel pixels with small values, and every image of a small shape
GrayPixels == {<<v>> : v \in 0..MaxPix}
Shapes == {sh \in (1..MaxW) \X (1..MaxH) : sh[1] * sh[2] <= MaxCells}
GrayImages(sh) ==
    {ImageBuffer(sh[1], sh[2], d) : d \in [1..(sh[1] * sh[2]) -> GrayPixels]}
GrayImage(w, h, raw) == ImageBuffer(w, h, [i \in 1..Len(raw) |-> <<raw[i]>>])

\* the images of the crate's tests
pi_img_8_3 ==
    GrayImage(8, 3, << 3, 1, 4, 0, 0, 0, 1, 5,
                       9, 2, 6, 0, 0, 0, 5, 3,
                       5, 8, 0, 0, 0, 9, 7, 9 >>)
two_seams_img ==
    GrayImage(8, 3, << 7, 9, 9, 0, 0, 0, 9, 5,
                       8, 9, 9, 0, 0, 0, 9, 3,
                       8, 9, 0, 0, 0, 9, 7, 9 >>)
energy_test_img == GrayImage(3, 2, <<3, 1, 4, 1, 5, 9>>)
single_pixel_img == GrayImage(1, 1, <<42>>)
TestImages == {pi_img_8_3, two_seams_img, energy_test_img, single_pixel_img}

\* further images a caller can pass: a row of three distinct values, a 3x2
\* image whose top row carries the lower energies, and a 5x3 image in which
\* earlier removals leave a cached offset behind
ramp_img == GrayImage(3, 1, <<0, 1, 2>>)
top_row_img == GrayImage(3, 2, <<0, 0, 1,
                                 2, 2, 0>>)
stale_offset_img ==
    GrayImage(5, 3, << 0, 0, 0, 2, 1,
                       0, 0, 2, 2, 0,
                       2, 0, 0, 0, 1 >>)
\* an image of three channels, as resize takes any pixel type
rgb_img ==
    ImageBuffer(2, 2, << <<0, 1, 2>>, <<2, 0, 1>>,
                         <<1, 1, 0>>, <<0, 2, 2>> >>)
CallerImages == {ramp_img, top_row_img, stale_offset_img, rgb_img}

\* an image and an energy closure with which a cached offset of -1 comes to
\* stand in column 0
underflow_img ==
    GrayImage(8, 3, << 0, 0, 3, 1, 1, 2, 1, 0,
                       3, 3, 0, 3, 0, 2, 2, 1,
                       2, 0, 3, 3, 3, 0, 0, 3 >>)
underflow_energy ==
    [w |-> 6, table |-> << 1, 1, 2, 2, 1, 0,
                           0, 2, 2, 1, 0, 2,
                           0, 2, 0, 1, 2, 1 >>]
FinderImages == {underflow_img}

\* the energy closures of the seam finder's unit tests: |Pos(x, _y)| x
XEnergy(w, h) == [w |-> w, table |-> [i \in 1..(w * h) |-> (i - 1) % w]]
EnergyTables(sh) ==
    {[w |-> sh[1], table |-> t] : t \in [1..(sh[1] * sh[2]) -> 0..MaxPix]}
NoTable == [w |-> 0, table |-> <<>>]
EmptyImage == ImageBuffer(0, 0, <<>>)

\* ---------------------------------------------- one axis pass (carve)
\* One pass of seam removals along the width: one SeamFinder mutated in place,
\* each extract_seam followed by Carved::remove_seam with the seam returned.
VARIABLES
    overflow_checks,  \* whether the build checks integer overflow
    img,              \* the source image of the pass
    mode,             \* "view": energy_fn over the carved view; "table": a fixed closure
    etable,           \* the fixed closure's table
    carved,           \* the Carved view
    finder,           \* the SeamFinder
    filled,           \* the finder as the last fill left it
    seam,             \* the seam the last extract_seam returned
    k,                \* how many seams have been extracted in this pass
    target,           \* the width and height asked of resize
    result,           \* the buffer resize returned
    iterator,         \* a RectIterator { current, start, end }
    yielded,          \* the positions the iterator has returned so far
    pc                \* where the pass, the resize call or the iteration stands

vars == <<overflow_checks, img, mode, etable, carved, finder, filled, seam, k,
          target, result, iterator, yielded, pc>>

\* no iterator is under observation
NoIterator == [current |-> Pos(0, 0), start |-> Pos(0, 0), end |-> Pos(0, 0)]

Closure == IF mode = "view" THEN EnergyOverView(carved)
           ELSE EnergyTable(etable.w, etable.table)

InitSeam ==
    /\ overflow_checks \in BOOLEAN
    /\ \/ /\ mode = "view"
          /\ img \in TestImages \cup CallerImages \cup FinderImages
                       \cup UNION {GrayImages(sh) : sh \in Shapes}
          /\ etable = NoTable
          /\ finder = SeamFinderNew(max_pos(CarvedNew(img)))
       \/ /\ mode = "table"
          /\ img = EmptyImage
          /\ etable \in {XEnergy(3, 2), underflow_energy}
                          \cup UNION {EnergyTables(sh) : sh \in Shapes}
          /\ finder = SeamFinderNew(Pos(etable.w, Len(etable.table) \div etable.w))
    /\ carved = CarvedNew(img)
    /\ filled = finder
    /\ seam = <<>>
    /\ k = 0
    /\ target = max_pos(img)
    /\ result = EmptyImage
    /\ iterator = NoIterator
    /\ yielded = <<>>
    /\ pc = "extract"

\* the state after extract_seam returned r
Returned(r) ==
    /\ finder' = r.sf
    /\ filled' = r.filled
    /\ seam' = r.seam
    /\ k' = IF r.panic THEN k ELSE k + 1
    /\ pc' = IF r.panic THEN "panic"
             ELSE IF mode = "view" THEN "remove" ELSE "extract"

\* seam_finder.extract_seam(|p| energy_fn(carved, p)), at most once per column
ExtractSeam ==
    /\ pc = "extract"
    /\ PX(finder.size) >= 1
    /\ Returned(extract_seam(finder, Closure, overflow_checks))
    /\ UNCHANGED <<iterator, yielded>>
    /\ UNCHANGED <<overflow_checks, img, mode, etable, carved, target, result>>

\* carved.remove_seam(&seam)
RemoveSeam ==
    /\ pc = "remove"
    /\ IF MatrixRemoveSeamPanics(carved.pos_aliases, seam, overflow_checks)
       THEN pc' = "panic" /\ carved' = carved
       ELSE pc' = "extract" /\ carved' = CarvedRemoveSeam(carved, seam)
    /\ UNCHANGED <<iterator, yielded>>
    /\ UNCHANGED <<overflow_checks, img, mode, etable, finder, filled, seam, k,
                   target, result>>

Next == ExtractSeam \/ RemoveSeam

Spec == InitSeam /\ [][Next]_vars

\* --------------------------------------------------------- lib.rs: resize
\* One call resize(img, width, height) of the crate root: carve along
\* Direction::Y (vertical seams, the width shrinks), carve the result along
\* Direction::X, finalize.
MaxResizeCells == 4
ResizeShapes == {sh \in (1..MaxW) \X (1..MaxH) : sh[1] * sh[2] <= MaxResizeCells}
\* every image of a small shape whose pixels are the darkest or the brightest
TwoToneImages(sh) ==
    {ImageBuffer(sh[1], sh[2], d) :
        d \in [1..(sh[1] * sh[2]) -> {<<0>>, <<MaxPix>>}]}
ResizeImages ==
    TestImages \cup CallerImages \cup UNION {TwoToneImages(sh) : sh \in ResizeShapes}

\* every target up to one beyond the source for a small source; for a larger
\* one the targets of the tests: one or two columns or one row less, and a
\* target beyond the source
Targets(i) ==
    IF i.width * i.height <= MaxCells
    THEN (0..(i.width + 1)) \X (0..(i.height + 1))
    ELSE { <<i.width - 1, i.height>>, <<i.width - 2, i.height>>,
           <<i.width, i.height - 1>>, <<i.width + 1, i.height + 1>> }

\* the subtraction of resize with its operands exchanged
ToRemoveReversed(i, t) == LibPosSub(Pos(t[1], t[2]), max_pos(i))

\* let Pos(to_remove_x, to_remove_y) = max_pos(img) - Pos(width, height)
ToRemove(i, t) == LibPosSub(max_pos(i), Pos(t[1], t[2]))

\* pixel_count of the carve call in progress
PixelCount ==
    IF pc = "carve_x" THEN PX(ToRemove(img, target)) ELSE PY(ToRemove(img, target))

InitResize ==
    /\ overflow_checks \in BOOLEAN
    /\ mode = "resize"
    /\ img \in ResizeImages
    /\ target \in Targets(img)
    /\ etable = NoTable
    /\ carved = LibCarvedNew(img, "Y")
    /\ finder = SeamFinderNew(Pos(0, 0))
    /\ filled = finder
    /\ seam = <<>>
    /\ k = 0
    /\ result = EmptyImage
    /\ iterator = NoIterator
    /\ yielded = <<>>
    /\ pc = "carve_x"

\* the state after carve_one removed seam s, or panicked in remove_seam
Carved1(s) ==
    IF LibCarvedRemoveSeamPanics(carved, s)
    THEN pc' = "panic" /\ UNCHANGED <<carved, seam, k>>
    ELSE /\ carved' = LibCarvedRemoveSeam(carved, s)
         /\ seam' = s
         /\ k' = k + 1
         /\ pc' = pc

\* carve_one(&mut carved, dir), one iteration of carve's loop
CarveOne ==
    /\ pc \in {"carve_x", "carve_y"}
    /\ k < PixelCount
    /\ IF CarveOnePanics(carved, carved.dir, overflow_checks)
       THEN pc' = "panic" /\ UNCHANGED <<carved, seam, k>>
       ELSE \E s \in Seams(carved, carved.dir) : Carved1(s)
    /\ UNCHANGED <<iterator, yielded>>
    /\ UNCHANGED <<overflow_checks, img, mode, etable, finder, filled, target, result>>

\* carve(&mut carved_x, Direction::X, to_remove_y) begins: Carved::new
CarveY ==
    /\ pc = "carve_x"
    /\ k = PixelCount
    /\ carved' = LibCarvedNew(carved, "X")
    /\ k' = 0
    /\ pc' = "carve_y"
    /\ UNCHANGED <<iterator, yielded>>
    /\ UNCHANGED <<overflow_checks, img, mode, etable, finder, filled, seam,
                   target, result>>

\* carved_y.finalize()
Finalize ==
    /\ pc = "carve_y"
    /\ k = PixelCount
    /\ result' = ViewToBuffer(carved)
    /\ pc' = "done"
    /\ UNCHANGED <<iterator, yielded>>
    /\ UNCHANGED <<overflow_checks, img, mode, etable, carved, finder, filled,
                   seam, k, target>>

NextResize == CarveOne \/ CarveY \/ Finalize

SpecResize == InitResize /\ [][NextResize]_vars

\* ------------------------------------------------- properties of a pass
Abs(n) == IF n < 0 THEN -n ELSE n

\* extract_seam has returned and the view it read is still the current one
JustExtracted ==
    \/ pc = "remove"
    \/ mode = "table" /\ pc = "extract" /\ k >= 1

\* the seam of a SeamFinder constructed now and filled from scratch on the
\* current view
FreshSeam ==
    extract_seam(SeamFinderNew(max_pos(carved)), Closure, overflow_checks).seam

\* C1: at every step of a pass, the seam the incrementally updated SeamFinder
\* returns equals the seam a freshly constructed SeamFinder, filled from
\* scratch on the current carved image, returns.
C1_IncrementalSeamIsFreshSeam ==
    pc = "remove" => seam = FreshSeam

\* one position per row from the bottom row to the top row, every x inside
\* the grid, neighbouring rows at most one column apart
ValidSeam(s, size) ==
    /\ Len(s) = PY(size)
    /\ \A i \in 1..Len(s) :
          /\ PY(s[i]) = PY(size) - i
          /\ 0 <= PX(s[i])
          /\ PX(s[i]) < PX(size)
    /\ \A i \in 1..(Len(s) - 1) : Abs(PX(s[i]) - PX(s[i + 1])) <= 1

\* C4: every seam extract_seam returns on a grid of width w >= 1 and height
\* h >= 1, after any number of earlier extractions, has exactly h positions
\* ordered from the bottom row to the top row, each with 0 <= x < w, and
\* positions of adjacent rows differ in x by at most 1.
C4_SeamIsConnectedColumnPath ==
    JustExtracted => ValidSeam(seam, filled.size)

\* the connected paths from row 0 down to row y, as the x of each row
PathsOfLength(size, n) ==
    {p \in [1..n -> 0..(PX(size) - 1)] :
        \A i \in 1..(n - 1) : Abs(p[i] - p[i + 1]) <= 1}
RECURSIVE PathCost(_, _)
PathCost(p, i) ==
    IF i > Len(p) THEN 0
    ELSE EnergyCall(Closure, Pos(p[i], i - 1)) + PathCost(p, i + 1)
RECURSIVE SeamCost(_, _)
SeamCost(s, i) ==
    IF i > Len(s) THEN 0
    ELSE EnergyCall(Closure, s[i]) + SeamCost(s, i + 1)
MinCostTo(size, x, y) ==
    MinOf({PathCost(p, 1) : p \in {q \in PathsOfLength(size, y + 1) : q[y + 1] = x}})
MinCost(size) ==
    MinOf({PathCost(p, 1) : p \in PathsOfLength(size, PY(size))})

FirstExtraction == JustExtracted /\ k = 1

\* C7: the first extract_seam on a freshly constructed SeamFinder returns a
\* seam whose total energy is the minimum over all connected top-to-bottom
\* paths; after its fill every cell's energy is the minimum cumulative cost of
\* a path from row 0 to the cell; with energy(x, y) = x on a 3x2 grid the seam
\* is column 0 in both rows.
C7_FirstSeamIsMinimal ==
    FirstExtraction =>
        /\ \A x \in 0..(PX(filled.size) - 1), y \in 0..(PY(filled.size) - 1) :
              /\ IsSome(MatrixIndex(filled.contents, Pos(x, y)))
              /\ Unwrap(MatrixIndex(filled.contents, Pos(x, y))).energy
                    = MinCostTo(filled.size, x, y)
        /\ ValidSeam(seam, filled.size)
        /\ SeamCost(seam, 1) = MinCost(filled.size)
        /\ (mode = "table" /\ etable = XEnergy(3, 2))
              => seam = <<Pos(0, 1), Pos(0, 0)>>

\* the first extraction of the unit test's finder and of an image three wide
C7_Witness ==
    /\ FirstExtraction
    /\ \/ mode = "table" /\ etable = XEnergy(3, 2)
       \/ mode = "view" /\ img = top_row_img

\* the size of the axis the pass shrinks, and of the other axis, at the start
StartSize ==
    IF mode = "view" THEN max_pos(img)
    ELSE Pos(etable.w, Len(etable.table) \div etable.w)

\* C10: after removing k seams from an axis of starting size n, 0 <= k <= n,
\* the carved view's width, the SeamFinder's size.0 and the current_width of
\* both backing matrices equal n - k, and the other axis is unchanged.
C10_LogicalSizeIsNMinusK ==
    pc = "extract" =>
        /\ k <= PX(StartSize)
        /\ finder.size = Pos(PX(StartSize) - k, PY(StartSize))
        /\ finder.contents.current_width = PX(StartSize) - k
        /\ mode = "view" =>
              /\ max_pos(carved) = Pos(PX(StartSize) - k, PY(StartSize))
              /\ carved.pos_aliases.current_width = PX(StartSize) - k

\* every column of an image three wide has been removed
C10_Witness ==
    /\ pc = "extract"
    /\ mode = "view"
    /\ PX(StartSize) = 3
    /\ k = 3
    /\ finder.size = Pos(0, PY(StartSize))

\* the buffer a resize call returns when its pass ends with the seam just
\* extracted
SinglePassResult == ViewToBuffer(CarvedRemoveSeam(carved, seam))

\* the buffer of a second resize call that is given the buffer of the earlier
\* removals and removes one more column, with a SeamFinder of its own
StepwiseResult ==
    LET inner == CarvedNew(ViewToBuffer(carved))
        s == extract_seam(SeamFinderNew(max_pos(inner)), EnergyOverView(inner),
                          overflow_checks).seam
    IN  ViewToBuffer(CarvedRemoveSeam(inner, s))

RECURSIVE SumChannels(_)
SumChannels(s) == IF s = <<>> THEN 0 ELSE Head(s) + SumChannels(Tail(s))

\* the energy the formula of the specification gives at (x, y) of view v
ClampedNeighbourEnergy(v, x, y) ==
    LET W == PX(max_pos(v))
        H == PY(max_pos(v))
        top == GetPixel(v, x, Max2(y - 1, 0))
        bottom == GetPixel(v, x, Min2(y + 1, H - 1))
        left == GetPixel(v, Max2(x - 1, 0), y)
        right == GetPixel(v, Min2(x + 1, W - 1), y)
    IN  SumChannels([c \in 1..Len(top) |-> (top[c] - bottom[c]) * (top[c] - bottom[c])])
        + SumChannels([c \in 1..Len(left) |-> (left[c] - right[c]) * (left[c] - right[c])])

InGrid(p, size) == 0 <= PX(p) /\ PX(p) < PX(size) /\ 0 <= PY(p) /\ PY(p) < PY(size)

\* C8: at every position of a grid of W x H pixels, W, H >= 1, energy_fn is
\* the sum over channels of (top - bottom)^2 plus the sum over channels of
\* (left - right)^2 with the neighbours clamped to the grid; it reads no
\* position outside the grid; on the 3x2 grid [3,1,4,1,5,9] it gives
\* [8,17,34,20,80,41].
C8_EnergyIsClampedSquaredDifferences ==
    mode = "view" =>
        /\ \A x \in 0..(PX(max_pos(carved)) - 1), y \in 0..(PY(max_pos(carved)) - 1) :
              /\ \A i \in 1..4 : InGrid(EnergyReads(carved, Pos(x, y))[i], max_pos(carved))
              /\ ~EnergyFnPanics(carved, Pos(x, y))
              /\ energy_fn(carved, Pos(x, y)) = ClampedNeighbourEnergy(carved, x, y)
        /\ (img = energy_test_img /\ k = 0)
              => [i \in 1..6 |-> energy_fn(carved, Pos((i - 1) % 3, (i - 1) \div 3))]
                    = <<8, 17, 34, 20, 80, 41>>

\* fill has applied energy_fn to every position of the 3x2 test grid, and to
\* the narrowed view of the three-channel image
C8_Witness ==
    /\ mode = "view"
    /\ \/ img = energy_test_img /\ pc = "remove" /\ k = 1
       \/ img = rgb_img /\ pc = "remove" /\ k = 2

\* ------------------------------------------- properties of resize (lib.rs)
\* carve(img, dir, pixel_count) as a function of its arguments: the views
\* pixel_count calls of carve_one can leave, from the views in cs
RECURSIVE CarveAll(_, _)
CarveAll(cs, pixel_count) ==
    IF pixel_count = 0 THEN cs
    ELSE LET after == UNION {{LibCarvedRemoveSeam(c, s) : s \in Seams(c, c.dir)}
                                : c \in cs}
         IN  CarveAll(after, pixel_count - 1)
carve(i, dir, pixel_count) == CarveAll({LibCarvedNew(i, dir)}, pixel_count)

\* resize that removes the horizontal seams first and the vertical ones second
resize_rows_first(i, width, height) ==
    LET to_remove == ToRemove(i, <<width, height>>)
        ys == carve(i, "X", PY(to_remove))
        xs == UNION {carve(carved_y, "Y", PX(to_remove)) : carved_y \in ys}
    IN  {ViewToBuffer(carved_x) : carved_x \in xs}

\* the buffers resize(i, width, height) can return
resize(i, width, height) ==
    LET to_remove == ToRemove(i, <<width, height>>)
        xs == carve(i, "Y", PX(to_remove))
        ys == UNION {carve(carved_x, "X", PY(to_remove)) : carved_x \in xs}
    IN  {ViewToBuffer(carved_y) : carved_y \in ys}

SourceW == PX(max_pos(img))
SourceH == PY(max_pos(img))

\* C2: for every source of W x H pixels and every target (w, h), resize
\* returns a buffer of exactly min(w, W) x min(h, H) pixels.
C2_ResizeReturnsMinDimensions ==
    /\ pc # "panic"
    /\ pc = "done" =>
          Dimensions(result) = <<Min2(target[1], SourceW), Min2(target[2], SourceH)>>

\* row y of a buffer, and a row without its pixel at column x
BufferRow(b, y) == [x \in 1..b.width |-> b.data[x + y * b.width]]
RowWithout(row, x) == SubSeq(row, 1, x) \o SubSeq(row, x + 2, Len(row))

\* the total energy of the path with column p[y + 1] in row y of image i
RECURSIVE ImagePathEnergy(_, _, _)
ImagePathEnergy(i, p, y) ==
    IF y >= Len(p) THEN 0
    ELSE ClampedNeighbourEnergy(i, p[y + 1], y) + ImagePathEnergy(i, p, y + 1)

expected_7_3 ==
    GrayImage(7, 3, << 3, 1, 4, 0, 0, 1, 5,
                       9, 2, 6, 0, 0, 5, 3,
                       5, 8, 0, 0, 9, 7, 9 >>)

\* C3: resize(img, W-1, H) removes from every row exactly one pixel, the
\* removed pixels forming a connected top-to-bottom seam of minimum total
\* energy in the source, and keeps the other pixels of each row in order; the
\* 8x3 grid of the tests resized to width 7 gives the expected 7x3 grid.
C3_OneColumnLessRemovesMinimalSeam ==
    (pc = "done" /\ SourceW >= 1 /\ target = <<SourceW - 1, SourceH>>) =>
        /\ \E p \in PathsOfLength(max_pos(img), SourceH) :
              /\ \A y \in 0..(SourceH - 1) :
                    BufferRow(result, y) = RowWithout(BufferRow(img, y), p[y + 1])
              /\ \A q \in PathsOfLength(max_pos(img), SourceH) :
                    ImagePathEnergy(img, p, 0) <= ImagePathEnergy(img, q, 0)
        /\ img = pi_img_8_3 => result = expected_7_3

\* C6: resize(img, w, h) with w >= img.width() and h >= img.height() removes
\* no seam on either axis and returns a buffer of the source's dimensions that
\* is pixel for pixel the source.
C6_NoOpBounds ==
    (target[1] >= SourceW /\ target[2] >= SourceH) =>
        /\ pc # "panic"
        /\ k = 0
        /\ seam = <<>>
        /\ carved.removed = 0
        /\ pc = "done" =>
              /\ Dimensions(result) = <<SourceW, SourceH>>
              /\ result.data = img.data

\* resize returned for a target strictly beyond the 3x2 source of the tests
C6_Witness ==
    /\ pc = "done"
    /\ img = energy_test_img
    /\ target = <<4, 3>>
    /\ result.data = img.data

\* the transposed copy of a buffer, through the Rotated view
Transposed(b) == ViewToBuffer(Rotated(b))
BufferColumn(b, x) == [y \in 1..b.height |-> b.data[x + 1 + (y - 1) * b.width]]
RECURSIVE IsSubsequence(_, _)
IsSubsequence(a, b) ==
    IF a = <<>> THEN TRUE
    ELSE IF b = <<>> THEN FALSE
    ELSE IF Head(a) = Head(b) THEN IsSubsequence(Tail(a), Tail(b))
    ELSE IsSubsequence(a, Tail(b))

\* C9: for every image of W x H pixels and every h <= H, resize(img, W, h)
\* equals the transpose of resize(transpose(img), h, W), whichever of the
\* seams of least cost is taken, and each output column is the source column
\* with H - h pixels removed and the rest in their order.  The buffer the steps
\* arrive at is compared when resize returns; that the transposed call returns
\* nothing else is compared once per call, when it starts.
C9_HeightByTransposedWidth ==
    (target[1] = SourceW /\ target[2] <= SourceH) =>
        /\ (pc = "carve_x" /\ k = 0) =>
              LET direct == resize(img, SourceW, target[2])
              IN  \A r \in resize(Transposed(img), target[2], SourceW) :
                      Transposed(r) \in direct
        /\ pc = "done" =>
              /\ Transposed(result)
                     \in resize(Transposed(img), target[2], SourceW)
              /\ Dimensions(result) = <<SourceW, target[2]>>
              /\ \A x \in 0..(SourceW - 1) :
                    IsSubsequence(BufferColumn(result, x), BufferColumn(img, x))

\* a row has been removed from the 3x2 source of the tests, and from the 8x3
C9_Witness ==
    /\ pc = "done"
    /\ img \in {energy_test_img, pi_img_8_3}
    /\ target = <<SourceW, SourceH - 1>>
    /\ Dimensions(result) = <<SourceW, SourceH - 1>>

\* every buffer the steps of resize arrive at is one resize can return
ResizeStepsAgree == pc = "done" => result \in resize(img, target[1], target[2])

\* ------------------------------------------------ properties of the views
\* the positions inside a view
ViewPositions(v) ==
    (0..(Dimensions(v)[1] - 1)) \X (0..(Dimensions(v)[2] - 1))

\* one application of the adapter swaps width with height and reads (y, x);
\* two applications read the view itself
RotatedIsTranspose(v) ==
    /\ Dimensions(Rotated(v)) = <<Dimensions(v)[2], Dimensions(v)[1]>>
    /\ Dimensions(Rotated(Rotated(v))) = Dimensions(v)
    /\ \A p \in ViewPositions(v) :
          /\ GetPixel(Rotated(v), p[2], p[1]) = GetPixel(v, p[1], p[2])
          /\ GetPixel(Rotated(Rotated(v)), p[1], p[2]) = GetPixel(v, p[1], p[2])
    /\ ViewPositions(Rotated(v)) = {<<p[2], p[1]>> : p \in ViewPositions(v)}

\* C11: applying the axis-transpose adapter twice is the identity on pixels
\* and dimensions, and one application swaps width with height and reads
\* get_pixel(y, x); for the source image and for the carved view over it.
C11_RotatedTwiceIsIdentity ==
    mode = "view" =>
        /\ RotatedIsTranspose(img)
        /\ RotatedIsTranspose(carved)
        /\ img.kind = "buffer" =>
              \A p \in ViewPositions(Rotated(img)) :
                  GetPixel(Rotated(img), p[1], p[2])
                      = img.data[p[2] + p[1] * img.width + 1]

\* the adapter over the 3x2 image of the tests and over its carved view
C11_Witness ==
    /\ mode = "view"
    /\ img = energy_test_img
    /\ k = 1
    /\ pc = "extract"
    /\ Dimensions(Rotated(img)) = <<2, 3>>
    /\ Dimensions(Rotated(carved)) = <<2, 2>>
    /\ GetPixel(Rotated(img), 1, 2) = <<9>>
    /\ GetPixel(Rotated(Rotated(img)), 2, 1) = <<9>>

\* C12: for every source with at least one column and one row, resize with a
\* target width of 0 and/or a target height of 0 never panics, and the buffer
\* it returns has size 0 on each axis whose target is 0 (a 1x1 grid resized to
\* 0x0 yields an empty buffer of dimensions (0, 0)).
C12_ZeroTargetYieldsEmptyAxis ==
    (SourceW >= 1 /\ SourceH >= 1 /\ (target[1] = 0 \/ target[2] = 0)) =>
        /\ pc # "panic"
        /\ pc = "done" =>
              /\ target[1] = 0 => Dimensions(result)[1] = 0
              /\ target[2] = 0 => Dimensions(result)[2] = 0
              /\ result.data = <<>>

\* C13: on a grid of width n >= 1 and height >= 1, with any energy function,
\* each of up to n successive extract_seam calls completes without an internal
\* failure (no failed expect, no matrix index out of range, no unsigned
\* underflow) and walks from a cell of the bottom row to row 0.
C13_ExtractionIsTotal ==
    /\ pc # "panic"
    /\ JustExtracted =>
          /\ Len(seam) >= 1
          /\ PY(seam[1]) = PY(filled.size) - 1
          /\ PY(seam[Len(seam)]) = 0

\* the cells inside the logical grid of a finder
GridCells(sf) == (0..(PX(sf.size) - 1)) \X (0..(PY(sf.size) - 1))

\* the entry at p is valid for the energies f gives now: in row 0 it holds the
\* local energy, below row 0 the local energy plus the energy of the present
\* in-grid entry its predecessor_dx refers to
EntryValid(sf, f, p) ==
    LET e == Unwrap(MatrixIndex(sf.contents, p))
        px == PX(p) + e.predecessor_dx
    IN  IF PY(p) = 0 THEN e.energy = EnergyCall(f, p)
        ELSE /\ 0 <= px
             /\ px < PX(sf.size)
             /\ IsSome(MatrixIndex(sf.contents, Pos(px, PY(p) - 1)))
             /\ e.energy = EnergyCall(f, p)
                   + Unwrap(MatrixIndex(sf.contents, Pos(px, PY(p) - 1))).energy

\* C14: immediately after every fill pass of a sequence of extractions, every
\* present in-grid cache entry is valid for the current carved view: a row-0
\* entry's energy is the cell's local energy in the current view, an entry of
\* a row below holds its local energy plus the energy of the entry its
\* predecessor_dx refers to.
C14_FilledEntriesAreValid ==
    pc = "remove" =>
        \A p \in GridCells(filled) :
            IsSome(MatrixIndex(filled.contents, p)) =>
                EntryValid(filled, Closure, p)

\* ---------------------------------------------------- properties of clear
\* the calls of clear a walk makes, in order: the finder each call finds and
\* the position it is given
RECURSIVE ClearCalls(_, _, _)
ClearCalls(st, o, oc) ==
    IF st.panic \/ o = None THEN <<>>
    ELSE LET pos == Unwrap(o)
             call == [sf |-> st.sf, p |-> pos]
         IN  IF PY(pos) = 0 THEN <<call>>
             ELSE IF \/ ~MatrixInRange(st.sf.contents, pos)
                     \/ ~IsSome(MatrixIndex(st.sf.contents, pos))
                     \/ oc /\ PredecessorOverflows(
                                 Unwrap(MatrixIndex(st.sf.contents, pos)), pos)
                  THEN <<>>
                  ELSE <<call>> \o ClearCalls(clear(st, pos, oc),
                            Some(predecessor(
                                 Unwrap(MatrixIndex(st.sf.contents, pos)), pos)), oc)

\* the calls of clear made by the extract_seam call that has just returned
\* or panicked
LastClearCalls ==
    IF (k = 0 /\ pc # "panic") \/ BottomPanics(filled) THEN <<>>
    ELSE ClearCalls(Running(filled), BottomInit(filled), overflow_checks)

\* the cells of row y + 1 that depend on a cell of deps, a set of cells of
\* row y: present, in the grid, at most one column away, and with a stored
\* offset that leads to the cell
Dependents(sf, deps, y) ==
    {s \in (0..(PX(sf.size) - 1)) \X {y + 1} :
        /\ y + 1 < PY(sf.size)
        /\ IsSome(MatrixIndex(sf.contents, s))
        /\ \E c \in deps :
              /\ Abs(PX(s) - PX(c)) <= 1
              /\ PX(s) + Unwrap(MatrixIndex(sf.contents, s)).predecessor_dx = PX(c)}

\* the dependency closure of p: p and, row after row, the dependents
RECURSIVE ClosureFrom(_, _, _)
ClosureFrom(sf, deps, y) ==
    IF deps = {} THEN {}
    ELSE deps \cup ClosureFrom(sf, Dependents(sf, deps, y), y + 1)
DependencyClosure(sf, p) == ClosureFrom(sf, {p}, PY(p))

\* every cell of the backing matrix
StoredCells(sf) ==
    IF sf.contents.original_width = 0 THEN {}
    ELSE (0..(sf.contents.original_width - 1)) \X (0..(MatrixRows(sf.contents) - 1))

\* clear(p) on finder sf empties the closure of p and nothing else
ClearsExactlyClosure(sf, p, oc) ==
    LET after == clear(Running(sf), p, oc)
        deps == DependencyClosure(sf, p)
    IN  /\ ~after.panic
        /\ \A q \in StoredCells(sf) :
              MatrixIndex(after.sf.contents, q) =
                  IF q \in deps THEN None ELSE MatrixIndex(sf.contents, q)

\* C15: clear(p) makes absent p and every present cell reachable from p by
\* repeatedly taking a successor whose stored predecessor is a cell already
\* cleared, and leaves every other entry present with its energy and its
\* predecessor_dx; for every call of clear an extraction makes, and for clear
\* at every cell of the grid as fill leaves it.
C15_ClearInvalidatesExactlyClosure ==
    /\ \A i \in 1..Len(LastClearCalls) :
          ClearsExactlyClosure(LastClearCalls[i].sf, LastClearCalls[i].p,
                               overflow_checks)
    /\ (JustExtracted /\ k = 1) =>
          \A p \in GridCells(filled) :
              ClearsExactlyClosure(filled, p, overflow_checks)

\* ----------------------------------------------------- properties of fill
\* an extract_seam call has run its fill: filled is the finder it left
HasFilled == k >= 1 \/ pc = "panic"

AllPresent(sf) ==
    \A p \in GridCells(sf) :
        MatrixInRange(sf.contents, p) /\ IsSome(MatrixIndex(sf.contents, p))

\* C16: after every fill pass, on a fresh cache and after any number of
\* earlier extractions and compactions, every cell (x, y) with x < current
\* width and y < height is present and the dirty bounds are the empty range
\* with lo equal to the current width; at the start of each fill every absent
\* cell of the grid has its x inside the dirty range [lo, hi).
C16_FillLeavesGridPresentAndClean ==
    /\ HasFilled =>
          /\ AllPresent(filled)
          /\ filled.dirty_bounds = <<PX(filled.size), 0>>
    /\ pc = "extract" =>
          \A p \in GridCells(finder) :
              ~IsSome(MatrixIndex(finder.contents, p)) =>
                  /\ finder.dirty_bounds[1] <= PX(p)
                  /\ PX(p) < finder.dirty_bounds[2]

\* the third fill of a pass has run on a grid in which the earlier
\* extractions had left cells absent, and the finder awaits the next fill
\* with cells absent again
C16_Witness ==
    /\ pc = "extract"
    /\ k = 3
    /\ PX(finder.size) >= 1
    /\ AllPresent(filled)
    /\ filled.dirty_bounds = <<PX(filled.size), 0>>
    /\ \E p \in GridCells(finder) : ~IsSome(MatrixIndex(finder.contents, p))
    /\ \E p \in GridCells(finder) : IsSome(MatrixIndex(finder.contents, p))

\* the positions the next fill visits: it reads the cache at each of them
FillVisits(sf) ==
    iter_in_rect(Pos(sf.dirty_bounds[1], 0), Pos(sf.dirty_bounds[2], PY(sf.size)))

\* C17: columns at index >= the current logical width are never read: the
\* positions fill visits and passes to the energy callback, the pixels the
\* callback reads through the carved view, and the positions of the walk
\* (which clear empties) all have x below the current logical width.
C17_RemovedColumnsAreNeverRead ==
    /\ (pc = "extract" /\ PX(finder.size) >= 1) =>
          \A i \in 1..Len(FillVisits(finder)) :
              LET pos == FillVisits(finder)[i]
              IN  /\ PX(pos) < PX(finder.size)
                  /\ (mode = "view" /\ ~IsSome(MatrixIndex(finder.contents, pos))) =>
                        \A j \in 1..4 :
                            PX(EnergyReads(carved, pos)[j]) < PX(max_pos(carved))
    /\ JustExtracted =>
          \A i \in 1..Len(seam) : PX(seam[i]) < PX(filled.size)

\* -------------------------------------------------- properties of the ties
EnergyAt(sf, x, y) == Unwrap(MatrixIndex(sf.contents, Pos(x, y))).energy

\* x is the lowest of the columns of xs whose entry in row y has the least
\* energy
LowestOfLeast(sf, xs, y, x) ==
    /\ x \in xs
    /\ \A q \in xs :
          /\ EnergyAt(sf, x, y) <= EnergyAt(sf, q, y)
          /\ EnergyAt(sf, q, y) = EnergyAt(sf, x, y) => x <= q

\* the columns of the grid at most one away from x
Neighbours(sf, x) == {q \in 0..(PX(sf.size) - 1) : Abs(q - x) <= 1}

\* the entry fill stored at p refers to the lowest predecessor of least energy
StoredLowestPredecessor(sf, p) ==
    LowestOfLeast(sf, Neighbours(sf, PX(p)), PY(p) - 1,
                  PX(p) + Unwrap(MatrixIndex(sf.contents, p)).predecessor_dx)

\* the cells of the grid below row 0 that the next fill computes
ToFill(sf) ==
    {p \in GridCells(sf) : PY(p) >= 1 /\ ~IsSome(MatrixIndex(sf.contents, p))}

\* C18: ties go to the lowest x: extract_seam starts the seam at the lowest x
\* among the bottom-row cells of least energy, and for every cell it computes
\* fill stores the offset of the lowest x among the predecessors of least
\* energy.
C18_TiesGoToLowestX ==
    /\ JustExtracted =>
          /\ seam # <<>>
          /\ PY(seam[1]) = PY(filled.size) - 1
          /\ LowestOfLeast(filled, 0..(PX(filled.size) - 1), PY(filled.size) - 1,
                           PX(seam[1]))
    /\ (pc = "extract" /\ PX(finder.size) >= 1) =>
          LET after == fill(finder, Closure)
          IN  /\ ~after.panic
              /\ \A p \in ToFill(finder) : StoredLowestPredecessor(after.sf, p)

\* two cells of the bottom row shared the least energy and the seam starts at
\* the lower; the next fill will compute a cell two of whose predecessors
\* share the least energy
C18_Witness ==
    /\ pc = "extract"
    /\ mode = "table"
    /\ k = 1
    /\ PX(finder.size) >= 2
    /\ \E x \in 1..(PX(filled.size) - 1) :
          /\ PX(seam[1]) < x
          /\ EnergyAt(filled, x, PY(filled.size) - 1)
                = EnergyAt(filled, PX(seam[1]), PY(filled.size) - 1)
    /\ \E p \in ToFill(finder) :
          \E q \in Neighbours(finder, PX(p)) :
              LET sf == fill(finder, Closure).sf
                  px == PX(p) + Unwrap(MatrixIndex(sf.contents, p)).predecessor_dx
              IN  /\ px < q
                  /\ EnergyAt(sf, q, PY(p) - 1) = EnergyAt(sf, px, PY(p) - 1)

\* ------------------------------------- Matrix::remove_seam on its own
\* Carved::remove_seam applied to any seam with one x per row inside the
\* current width, connected or not, on images whose pixels are all different.
NumberedImage(sh) ==
    ImageBuffer(sh[1], sh[2], [i \in 1..(sh[1] * sh[2]) |-> <<i - 1>>])

\* the seams of a grid, bottom row first, one x inside the grid per row
RowSeams(size) ==
    {[i \in 1..PY(size) |-> Pos(xs[i], PY(size) - i)] :
        xs \in [1..PY(size) -> 0..(PX(size) - 1)]}

InitMatrix ==
    /\ overflow_checks \in BOOLEAN
    /\ mode = "matrix"
    /\ img \in {NumberedImage(sh) : sh \in Shapes}
    /\ etable = NoTable
    /\ carved = CarvedNew(img)
    /\ finder = SeamFinderNew(Pos(0, 0))
    /\ filled = finder
    /\ seam = <<>>
    /\ k = 0
    /\ target = max_pos(img)
    /\ result = EmptyImage
    /\ iterator = NoIterator
    /\ yielded = <<>>
    /\ pc = "remove"

\* carved.remove_seam(&seam) with any seam of the current grid
RemoveAnySeam ==
    /\ pc = "remove"
    /\ mode = "matrix"
    /\ \E s \in RowSeams(max_pos(carved)) :
          IF MatrixRemoveSeamPanics(carved.pos_aliases, s, overflow_checks)
          THEN pc' = "panic" /\ UNCHANGED <<carved, seam, k>>
          ELSE /\ carved' = CarvedRemoveSeam(carved, s)
               /\ seam' = s
               /\ k' = k + 1
               /\ pc' = pc
    /\ UNCHANGED <<iterator, yielded>>
    /\ UNCHANGED <<overflow_checks, img, mode, etable, finder, filled, target,
                   result>>

NextMatrix == RemoveAnySeam

SpecMatrix == InitMatrix /\ [][NextMatrix]_vars

StrictlyIncreasing(s) == \A i \in 1..(Len(s) - 1) : s[i] < s[i + 1]

\* row y of the alias matrix after removals: a permutation of the original
\* row, its logical part in the original order, and the entry just removed,
\* which stands right after the logical part, taken from column x
AliasRowOK(m, y, x) ==
    LET row == MatrixRow(m, y)
        cw == m.current_width
    IN  /\ {row[i] : i \in 1..Len(row)} = 0..(m.original_width - 1)
        /\ StrictlyIncreasing(SubSeq(row, 1, cw))
        /\ k >= 1 =>
              /\ x = 0 \/ row[x] < row[cw + 1]
              /\ x >= cw \/ row[cw + 1] < row[x + 1]

OverDenseCopy(c) == [c EXCEPT !.img = ViewToBuffer(c.img)]

\* C20: resize removes the vertical seams first and the horizontal seams
\* second, the horizontal pass running on the image already reduced in width:
\* for every image and target (w, h), resize(img, w, h) equals
\* resize(resize(img, w, H), w, h), H the source height.  The buffers of the
\* two are compared when the call starts; while the second pass runs, the
\* seams it can take and the pixels it reads are those of the same pass over
\* the dense copy of the width-reduced image.
C20_ColumnsFirstThenRows ==
    /\ (pc = "carve_x" /\ k = 0) =>
          resize(img, target[1], target[2])
              = UNION {resize(b, target[1], target[2]) :
                          b \in resize(img, target[1], SourceH)}
    /\ pc = "carve_y" =>
          /\ carved.dir = "X"
          /\ carved.img.kind = "libcarved"
          /\ carved.img.dir = "Y"
          /\ carved.img.removed = PX(ToRemove(img, target))
          /\ ViewToBuffer(carved) = ViewToBuffer(OverDenseCopy(carved))
          /\ k < PixelCount =>
                Seams(carved, "X") = Seams(OverDenseCopy(carved), "X")

\* a column and a row have been removed from the 3x2 image of the tests
C20_Witness ==
    /\ pc = "done"
    /\ img = energy_test_img
    /\ target = <<2, 1>>
    /\ Dimensions(result) = <<2, 1>>
    /\ result \in UNION {resize(b, 2, 1) : b \in resize(img, 2, 2)}


\* ------------------------------------------- resize of an empty source
\* resize called on a buffer with no column or no row
EmptyShapes == {sh \in (0..MaxW) \X (0..MaxH) : sh[1] = 0 \/ sh[2] = 0}
EmptySources == {ImageBuffer(sh[1], sh[2], <<>>) : sh \in EmptyShapes}

InitResizeEmpty ==
    /\ overflow_checks \in BOOLEAN
    /\ mode = "resize"
    /\ img \in EmptySources
    /\ target \in (0..(img.width + 1)) \X (0..(img.height + 1))
    /\ etable = NoTable
    /\ carved = LibCarvedNew(img, "Y")
    /\ finder = SeamFinderNew(Pos(0, 0))
    /\ filled = finder
    /\ seam = <<>>
    /\ k = 0
    /\ result = EmptyImage
    /\ iterator = NoIterator
    /\ yielded = <<>>
    /\ pc = "carve_x"

SpecResizeEmpty == InitResizeEmpty /\ [][NextResize]_vars

\* C21: for a source with width 0 or height 0 and any target size, resize
\* completes without a panic, evaluates no energy, and returns an empty buffer.
C21_EmptySourceYieldsEmptyBuffer ==
    (SourceW = 0 \/ SourceH = 0) =>
        /\ pc # "panic"
        /\ EnergyGrid(carved) = <<>>
        /\ pc = "done" => result.data = <<>>


\* ------------------------------------------------ Pos::iter_in_rect alone
\* Pos::iter_in_rect(start, end)
RectIteratorNew(start, end) == [current |-> start, start |-> start, end |-> end]

\* self.current.0 += 1 overflows
RectIteratorNextPanics(it, oc) ==
    oc /\ PY(it.current) # PY(it.end) /\ PX(it.current) = U32_MAX

\* RectIterator::next: the item returned and the iterator it leaves
RectIteratorNext(it) ==
    IF PY(it.current) = PY(it.end)
    THEN [item |-> None, it |-> it]
    ELSE LET x1 == IF PX(it.current) = U32_MAX THEN 0 ELSE PX(it.current) + 1
         IN  [item |-> Some(it.current),
              it |-> [it EXCEPT !.current =
                         IF x1 = PX(it.end)
                         THEN Pos(PX(it.start), PY(it.current) + 1)
                         ELSE Pos(x1, PY(it.current))]]

\* the corners of a rectangle, start not beyond end on either axis
Corners == (0..MaxW) \X (0..MaxH)

InitRect ==
    /\ overflow_checks \in BOOLEAN
    /\ mode = "rect"
    /\ img = EmptyImage
    /\ etable = NoTable
    /\ carved = CarvedNew(img)
    /\ finder = SeamFinderNew(Pos(0, 0))
    /\ filled = finder
    /\ seam = <<>>
    /\ k = 0
    /\ target = max_pos(img)
    /\ result = EmptyImage
    /\ \E start \in Corners, end \in Corners :
          /\ PX(start) <= PX(end)
          /\ PY(start) <= PY(end)
          /\ iterator = RectIteratorNew(start, end)
    /\ yielded = <<>>
    /\ pc = "next"

\* one call of next() by the for loop, which stops at the first None; at most
\* MaxIter items are followed
IteratorNext ==
    /\ pc = "next"
    /\ mode = "rect"
    /\ Len(yielded) < MaxIter
    /\ IF RectIteratorNextPanics(iterator, overflow_checks)
       THEN pc' = "panic" /\ UNCHANGED <<iterator, yielded>>
       ELSE LET r == RectIteratorNext(iterator)
            IN  /\ iterator' = r.it
                /\ yielded' = IF IsSome(r.item)
                              THEN Append(yielded, Unwrap(r.item))
                              ELSE yielded
                /\ pc' = IF IsSome(r.item) THEN "next" ELSE "ended"
    /\ UNCHANGED <<overflow_checks, img, mode, etable, carved, finder, filled,
                   seam, k, target, result>>

NextRect == IteratorNext

SpecRect == InitRect /\ [][NextRect]_vars

\* the positions of [start, end) in row-major order
RowMajor(start, end) ==
    LET w == PX(end) - PX(start)
        h == PY(end) - PY(start)
    IN  IF w = 0 THEN <<>>
        ELSE [i \in 1..(w * h) |->
                 Pos(PX(start) + ((i - 1) % w), PY(start) + ((i - 1) \div w))]

IsPrefix(a, b) == Len(a) <= Len(b) /\ a = SubSeq(b, 1, Len(a))

\* C22: for start.x <= end.x and start.y <= end.y, empty ranges included,
\* iter_in_rect(start, end) yields exactly the positions of [start, end), each
\* once, in row-major order, and then ends.
C22_IterInRectIsRowMajor ==
    /\ pc # "panic"
    /\ IsPrefix(yielded, RowMajor(iterator.start, iterator.end))
    /\ pc = "ended" => yielded = RowMajor(iterator.start, iterator.end)


\* ------------------------------------------- properties of the offsets
\* the entry at p of a finder, p inside the grid and present
StoredDx(sf, p) == Unwrap(MatrixIndex(sf.contents, p)).predecessor_dx

\* the stored offset of the entry at p is -1, 0 or +1 and leads to a present
\* cell of the row above, inside the logical grid
OffsetResolves(sf, p) ==
    LET q == PX(p) + StoredDx(sf, p)
    IN  /\ StoredDx(sf, p) \in {-1, 0, 1}
        /\ 0 <= q
        /\ q < PX(sf.size)
        /\ IsSome(MatrixIndex(sf.contents, Pos(q, PY(p) - 1)))

\* C23: after any sequence of extract_seam calls, clear cascade and row
\* compaction included, every present entry of the grid in a row y > 0 has a
\* predecessor_dx in {-1, 0, +1} that resolves to a cell of row y - 1 inside
\* the current width which is itself present; no stored offset is left
\* pointing outside the grid or at an emptied cell by the shift.
C23_StoredOffsetsStayValid ==
    (pc # "panic" /\ k >= 1) =>
        \A p \in GridCells(finder) :
            (PY(p) > 0 /\ IsSome(MatrixIndex(finder.contents, p)))
                => OffsetResolves(finder, p)


\* ------------------------------------------- properties of the worklist
\* the positions the while loop of clear pops and clears, in order
RECURSIVE ClearPops(_, _)
ClearPops(st, oc) ==
    IF st.panic \/ st.sf.to_clear = <<>> THEN <<>>
    ELSE LET sf0 == st.sf
             n == Len(sf0.to_clear)
             pos == sf0.to_clear[n]
             sf1 == [sf0 EXCEPT !.to_clear = SubSeq(sf0.to_clear, 1, n - 1)]
         IN  IF ~MatrixInRange(sf1.contents, pos) THEN <<>>
             ELSE LET sf2 == [sf1 EXCEPT
                                !.contents = MatrixSet(sf1.contents, pos, None),
                                !.dirty_bounds = DirtyUpdate(sf1.dirty_bounds, pos)]
                      succ == successors(pos, sf2.size)
                  IN  <<pos>> \o
                      (IF \E i \in 1..Len(succ) : ClearTestPanics(sf2, succ[i], oc)
                       THEN <<>>
                       ELSE ClearPops([st EXCEPT !.sf =
                               [sf2 EXCEPT !.to_clear =
                                   sf2.to_clear \o ClearPushed(sf2, pos, succ, 1)]], oc))

\* clear(p) on finder sf returns with the worklist empty, pops no cell twice,
\* pops only cells of the cone below p, and leaves the rows above p alone
ClearStaysInCone(sf, p, oc) ==
    LET after == clear(Running(sf), p, oc)
        pops == ClearPops(Running([sf EXCEPT !.to_clear = Append(sf.to_clear, p)]), oc)
    IN  /\ ~after.panic
        /\ after.sf.to_clear = <<>>
        /\ \A i, j \in 1..Len(pops) : i # j => pops[i] # pops[j]
        /\ \A i \in 1..Len(pops) :
              /\ PY(pops[i]) >= PY(p)
              /\ Abs(PX(pops[i]) - PX(p)) <= PY(pops[i]) - PY(p)
        /\ \A q \in StoredCells(sf) :
              PY(q) < PY(p) =>
                  MatrixIndex(after.sf.contents, q) = MatrixIndex(sf.contents, q)

\* C24: clear(p) always terminates with the worklist empty; within one call
\* each cell is pushed and cleared at most once, and every cell it clears lies
\* in a row y >= p.y with |x - p.x| <= y - p.y, so no cell of a row above p is
\* cleared; for every call of clear an extraction makes, and for clear at
\* every cell of the grid as fill leaves it.
C24_ClearTerminatesInsideCone ==
    /\ \A i \in 1..Len(LastClearCalls) :
          ClearStaysInCone(LastClearCalls[i].sf, LastClearCalls[i].p,
                           overflow_checks)
    /\ (JustExtracted /\ k = 1) =>
          \A p \in GridCells(filled) :
              ClearStaysInCone(filled, p, overflow_checks)

=============================================================================
